---- MODULE Spec2Model ----
(***************************************************************************)
(* Job/session lifecycle of the UniRig web backend: the job store, the     *)
(* per-session concurrency gate of the stage-trigger endpoints, the upload *)
(* endpoint and the Celery stage tasks that drive the external toolchain.  *)
(*                                                                         *)
(* Progress is a real number in the source; it is modelled in tenths       *)
(* (0.3 is 3, 1.0 is 10, the value 150 is 1500).  Time is counted in       *)
(* minutes; a timestamp is the number of minutes since the start.          *)
(***************************************************************************)
EXTENDS Integers, Sequences, FiniteSets, Bags, TLC

\* ------------------------------------------------------------------ bounds
MaxJobs == 2
MaxSessions == 2
MaxTasks == 4
NumWorkers == 2
NumHandlers == 2
MaxRateJobs == 11

JobIds == 1..MaxJobs
SessionIds == 1..MaxSessions

VARIABLES
    sessions,   \* session rows: the set of session ids in the store
    jobs,       \* job rows: job id -> row, for the ids in the store
    nextJob,    \* number of job ids handed out so far (ids are never reused)
    queue,      \* broker queue: tasks dispatched with .delay() and not started
    dispatched, \* number of tasks dispatched so far
    running,    \* bag of the stage tasks the worker pool is executing
    admitted,   \* bag of the stage requests that are past the gate and have
                \* not yet written: kind, job and the skeleton_file argument
                \* of the skinning task the request will dispatch
    resp,       \* response of the stage request answered by the last step
                \* (NoResp when the last step answered none)
    now,        \* the clock: datetime.utcnow()
    last_accessed,  \* session id -> last_accessed, for the session rows
    files,      \* session ids that have a directory under uploads/ or results/
    upload_history, \* RateLimiter.upload_history: key -> list of timestamps
    sweep,      \* the running cleanup_expired_sessions call, if any
    reclaim,    \* the running emergency_cleanup call, if any
    uploading,  \* sessions of the upload requests that have created or touched
                \* their session row and have not yet created their job
    expired,    \* the session rows whose expired flag is set
    checking    \* bag of the check_upload_rate calls that have passed the
                \* test of the limit and have not yet appended: key and time

vars == <<sessions, jobs, nextJob, queue, dispatched, running, admitted, resp,
          now, last_accessed, files, upload_history, sweep, reclaim,
          uploading, expired, checking>>

\* the session store, the disk, the rate limiter, the cleanup calls and the
\* uploads in progress
storeVars ==
    <<now, last_accessed, files, upload_history, sweep, reclaim, uploading,
      expired, checking>>

\* -------------------------------------------------------------- data model
JobStatus == {"uploaded", "queued", "processing", "completed", "failed"}

JobStage == {"upload", "skeleton_generation", "skinning_generation", "merge"}

NoStage == "None"

NoError == "None"

TaskKinds == {"skeleton", "skinning"}

\* progress 1.0 in tenths
ProgressOne == 10

Max(a, b) == IF a > b THEN a ELSE b

Min(a, b) == IF a < b THEN a ELSE b

\* mutant of Clamp: the written value is stored as given
ClampNone(p) == p

\* job_service.py:130  max(0.0, min(1.0, progress))
Clamp(p) == Max(0, Min(ProgressOne, p))

\* job_service.py create_job: the row of a freshly accepted upload
NewJob(s) ==
    [session |-> s, status |-> "uploaded", progress |-> 0, stage |-> NoStage,
     error_message |-> NoError, skeleton_file |-> FALSE, skin_file |-> FALSE,
     final_file |-> FALSE, created_at |-> now]

\* job_service.py update_job: upd holds exactly the arguments that are not
\* None; every other column keeps its value.  Defined for j in DOMAIN J.
UpdateJob(J, j, upd) ==
    [J EXCEPT ![j] =
        [session |-> @.session,
         status |-> IF "status" \in DOMAIN upd THEN upd.status ELSE @.status,
         progress |-> IF "progress" \in DOMAIN upd THEN Clamp(upd.progress)
                      ELSE @.progress,
         stage |-> IF "stage" \in DOMAIN upd THEN upd.stage ELSE @.stage,
         error_message |-> IF "error_message" \in DOMAIN upd
                           THEN upd.error_message ELSE @.error_message,
         skeleton_file |-> IF "skeleton_file" \in DOMAIN upd
                           THEN upd.skeleton_file ELSE @.skeleton_file,
         skin_file |-> IF "skin_file" \in DOMAIN upd
                       THEN upd.skin_file ELSE @.skin_file,
         final_file |-> IF "final_file" \in DOMAIN upd
                        THEN upd.final_file ELSE @.final_file,
         created_at |-> @.created_at]]

\* update_job on a row that may be gone: JobNotFoundError changes nothing
TryUpdateJob(J, j, upd) == IF j \in DOMAIN J THEN UpdateJob(J, j, upd) ELSE J

\* mutant of ActiveStatuses: queued jobs are not counted
ActiveStatusesProcessingOnly == {"processing"}

\* job_service.py:242-245
ActiveStatuses == {"queued", "processing"}

\* job_service.py get_active_jobs_for_session
ActiveJobs(J, s) ==
    {j \in DOMAIN J : J[j].session = s /\ J[j].status \in ActiveStatuses}

NoResp == [op |-> "none", job |-> 0, code |-> "none", detail |-> 0]

Response(op, j, code, detail) ==
    [op |-> op, job |-> j, code |-> code, detail |-> detail]

\* a stage task as dispatched: generate_skeleton(job_id, input_file, seed) or
\* generate_skinning(job_id, skeleton_file); skeleton_file is FALSE for a
\* skeleton task and tells whether the argument is non-empty for a skinning
\* task
Task(kind, j, skel) == [kind |-> kind, job |-> j, skeleton_file |-> skel]

Tasks == [kind : TaskKinds, job : JobIds, skeleton_file : BOOLEAN]

\* a task in execution
Run(kind, j) == [kind |-> kind, job |-> j]

Runs == [kind : TaskKinds, job : JobIds]

\* cleanup_service.py:224-229  the results of a sweep that selected n sessions
SweepResults(n) ==
    [total_expired |-> n, cleaned |-> 0, failed |-> 0, errors |-> <<>>]

\* no cleanup_expired_sessions call is running
NoSweep == [running |-> FALSE, batch |-> <<>>, results |-> SweepResults(0)]

\* no emergency_cleanup call is running
NoReclaim == [pc |-> "idle", batch |-> <<>>, goal |-> 0]

\* one more dispatch fits the bound on dispatched tasks, counting the
\* requests that are past the gate and still have to dispatch
CanDispatch == dispatched + BagCardinality(admitted) < MaxTasks

Init ==
    /\ sessions = {}
    /\ jobs = [j \in {} |-> NewJob(1)]
    /\ nextJob = 0
    /\ queue = <<>>
    /\ dispatched = 0
    /\ running = EmptyBag
    /\ admitted = EmptyBag
    /\ resp = NoResp
    /\ now = 0
    /\ last_accessed = [s \in {} |-> 0]
    /\ files = {}
    /\ upload_history = [k \in SessionIds |-> <<>>]
    /\ sweep = NoSweep
    /\ reclaim = NoReclaim
    /\ uploading = {}
    /\ expired = {}
    /\ checking = EmptyBag

\* ------------------------------------------------------- upload endpoint
\* upload.py upload_file, accepted upload: the session row is created when
\* it is missing and touched (last_accessed) when it exists, the file is
\* saved under uploads/<session>, the job row is created in status uploaded,
\* and a skeleton task is dispatched for it straight away (upload.py:94).
\* Session ids are opaque: a new session takes the next unused id.
UploadFile(s) ==
    /\ s \in sessions \/ s = Cardinality(sessions) + 1
    /\ sessions' = sessions \cup {s}
    /\ last_accessed' = [k \in sessions \cup {s} |->
                            IF k = s THEN now ELSE last_accessed[k]]
    /\ files' = files \cup {s}
    /\ nextJob' = nextJob + 1
    /\ jobs' = [j \in DOMAIN jobs \cup {nextJob + 1} |->
                   IF j = nextJob + 1 THEN NewJob(s) ELSE jobs[j]]
    /\ queue' = Append(queue, Task("skeleton", nextJob + 1, FALSE))
    /\ dispatched' = dispatched + 1
    /\ UNCHANGED <<running, admitted, now, uploading, expired, checking, sweep, reclaim>>

\* an upload request that carries no session_id cookie (the server never
\* sets one): the rate limiter is not consulted (rate_limiter.py:100-102)
Upload(s) ==
    /\ nextJob < MaxJobs
    /\ CanDispatch
    /\ UploadFile(s)
    /\ resp' = NoResp
    /\ UNCHANGED upload_history

\* ------------------------------------------------ stage-trigger endpoints
\* mutant of SkeletonMissing: the skinning endpoint skips the check
SkeletonMissingUnchecked(kind, job) == FALSE

\* jobs.py:256-261  skinning requires job.results.skeleton_file
SkeletonMissing(kind, job) == kind = "skinning" /\ ~job.skeleton_file

\* mutant of QueuedUpdate: the request also resets the stage
QueuedUpdateResetStage == [status |-> "queued", progress |-> 0, stage |-> NoStage]

\* jobs.py:196-200 and 281-285  update_job(status=QUEUED, progress=0.0)
QueuedUpdate == [status |-> "queued", progress |-> 0]

\* jobs.py:176-193 and 254-278: get_job, the skinning precondition and the
\* read of the session's active jobs.  The write that follows (TriggerWrite)
\* is a separate database transaction; nothing locks the session between
\* the two, so requests served by different server processes interleave.
TriggerRead(kind, j) ==
    /\ BagCardinality(admitted) < NumHandlers
    /\ CanDispatch
    /\ UNCHANGED <<sessions, jobs, nextJob, queue, dispatched, running>>
    /\ UNCHANGED storeVars
    /\ IF j \notin DOMAIN jobs
       THEN /\ resp' = Response(kind, j, "JOB_NOT_FOUND", 0)
            /\ UNCHANGED admitted
       ELSE IF SkeletonMissing(kind, jobs[j])
       THEN /\ resp' = Response(kind, j, "SKELETON_REQUIRED", 0)
            /\ UNCHANGED admitted
       ELSE IF Cardinality(ActiveJobs(jobs, jobs[j].session)) > 0
       THEN /\ resp' = Response(kind, j, "CONCURRENT_JOB_LIMIT",
                                Cardinality(ActiveJobs(jobs, jobs[j].session)))
            /\ UNCHANGED admitted
       ELSE /\ admitted' = admitted (+) SetToBag({Task(kind, j,
                               kind = "skinning" /\ jobs[j].skeleton_file)})
            /\ resp' = NoResp

\* jobs.py:195-214 and 280-298: update_job to queued (404 when the row has
\* been deleted since the read), then .delay() of the stage task.
TriggerWrite(r) ==
    /\ BagIn(r, admitted)
    /\ admitted' = admitted (-) SetToBag({r})
    /\ UNCHANGED <<sessions, nextJob, running>>
    /\ UNCHANGED storeVars
    /\ IF r.job \notin DOMAIN jobs
       THEN /\ resp' = Response(r.kind, r.job, "JOB_NOT_FOUND", 0)
            /\ UNCHANGED <<jobs, queue, dispatched>>
       ELSE /\ jobs' = UpdateJob(jobs, r.job, QueuedUpdate)
            /\ queue' = Append(queue, r)
            /\ dispatched' = dispatched + 1
            /\ resp' = Response(r.kind, r.job, "queued", 0)

\* mutant of RemoveJob: the other jobs of the job's session go with it
RemoveJobAndSiblings(J, j) ==
    [k \in {i \in DOMAIN J : J[i].session # J[j].session} |-> J[k]]

\* job_service.py:163-169 delete_job: the row is deleted
RemoveJob(J, j) == [k \in DOMAIN J \ {j} |-> J[k]]

\* jobs.py:331-349 delete_job: removes the row, no file is touched
DeleteJob(j) ==
    /\ j \in DOMAIN jobs
    /\ jobs' = RemoveJob(jobs, j)
    /\ resp' = NoResp
    /\ UNCHANGED <<sessions, nextJob, queue, dispatched, running, admitted>>
    /\ UNCHANGED storeVars

\* ------------------------------------------------------------ stage tasks
\* mutant of StageOf: the skeleton task records the skinning stage
StageOfSwapped(kind) == "skinning_generation"

\* skeleton_task.py:82, skinning_task.py:80  the stage a task records
StageOf(kind) ==
    IF kind = "skeleton" THEN "skeleton_generation" ELSE "skinning_generation"

\* errors.py:155-180  the message of the stage's ProcessingError
ExcMessage(kind) ==
    IF kind = "skeleton" THEN "Skeleton generation failed"
    ELSE "Skinning generation failed"

\* SkeletonGenerationError(details=...) / SkinningGenerationError(details=...)
StageError(kind, details) == [message |-> ExcMessage(kind), details |-> details]

\* mutant of Str: str(exc) is the details of the exception
StrDetails(exc) == exc.details

\* errors.py:38  super().__init__(self.message): str(exc) is the message
Str(exc) == exc.message

\* what the external process wrote to stderr before a non-zero exit
StderrText == "stderr of the process"

\* skeleton_task.py:140-142  details of the error for a missing output file
NoOutputText == "Output file not created"

\* skinning_task.py:71-74  details of the error for a missing skeleton file
SkeletonNotFoundText == "Skeleton file not found"

\* str() of the OSError subprocess.Popen raises when the script cannot be run
LaunchErrorText == "No such file or directory"

\* mutant of FailureUpdate: the failure is recorded without its message
FailureUpdateNoMessage(msg) == [status |-> "failed"]

\* skeleton_task.py:155-162 and 26-49: the except clause and on_failure both
\* write status failed with str(exc)
FailureUpdate(msg) == [status |-> "failed", error_message |-> msg]

\* skeleton_task.py:79-84, skinning_task.py:77-82
ProcessingUpdate(kind) ==
    [status |-> "processing", stage |-> StageOf(kind), progress |-> 1]

\* skeleton_task.py:145-151, skinning_task.py:144-150
SuccessUpdate(kind) ==
    IF kind = "skeleton"
    THEN [status |-> "completed", stage |-> StageOf(kind),
          progress |-> ProgressOne, skeleton_file |-> TRUE]
    ELSE [status |-> "completed", stage |-> StageOf(kind),
          progress |-> ProgressOne, skin_file |-> TRUE]

\* skeleton_task.py:117-122, skinning_task.py:114-121: the progress
\* fraction a stdout line is mapped to, by the first keyword test it meets
\* (0: the line is not recognised and nothing is written)
ProgressOf(kind, line) ==
    IF kind = "skeleton"
    THEN CASE line = "loading model" -> 3
           [] line = "processing mesh" -> 5
           [] line = "generating skeleton" -> 7
           [] OTHER -> 0
    ELSE CASE line \in {"loading model", "loading"} -> 3
           [] line = "computing" -> 5
           [] line \in {"generating skeleton", "generating"} -> 7
           [] line = "saving" -> 9
           [] OTHER -> 0

\* the lines the external process is taken to print
StdoutLines == {"loading model"}

\* A free worker takes the oldest task.  get_job raises when the row is gone
\* (the except clause's update_job raises again: nothing is written).  The
\* skinning task raises when its skeleton_file argument is empty or the file
\* is not on disk (onDisk); otherwise the job moves to processing.
TaskStart(onDisk) ==
    /\ BagCardinality(running) < NumWorkers
    /\ queue # <<>>
    /\ queue' = Tail(queue)
    /\ resp' = NoResp
    /\ UNCHANGED <<sessions, nextJob, dispatched, admitted>>
    /\ UNCHANGED storeVars
    /\ LET t == Head(queue)
       IN IF t.job \notin DOMAIN jobs
          THEN UNCHANGED <<jobs, running>>
          ELSE IF t.kind = "skinning" /\ (~t.skeleton_file \/ ~onDisk)
          THEN /\ jobs' = UpdateJob(jobs, t.job,
                              FailureUpdate(Str(StageError(t.kind, SkeletonNotFoundText))))
               /\ UNCHANGED running
          ELSE /\ jobs' = UpdateJob(jobs, t.job, ProcessingUpdate(t.kind))
               /\ running' = running (+) SetToBag({Run(t.kind, t.job)})

\* One recognised line of the process's stdout: update_job(progress=p).
\* When the row is gone update_job raises, in the loop and again in the
\* except clause, and the task ends.
TaskProgress(t, line) ==
    /\ BagIn(t, running)
    /\ ProgressOf(t.kind, line) # 0
    /\ resp' = NoResp
    /\ UNCHANGED <<sessions, nextJob, queue, dispatched, admitted>>
    /\ UNCHANGED storeVars
    /\ IF t.job \in DOMAIN jobs
       THEN /\ jobs' = UpdateJob(jobs, t.job, [progress |-> ProgressOf(t.kind, line)])
            /\ UNCHANGED running
       ELSE /\ running' = running (-) SetToBag({t})
            /\ UNCHANGED jobs

ExitOutcomes == {"ok", "nonzero", "no_output", "launch_error"}

\* skeleton_task.py:103-162: Popen raises (launch_error), or the process
\* exits.  Exit code 0 with the output file present is success; a non-zero
\* code raises the stage's error with the captured stderr as details, a
\* missing output file raises it with a fixed text.  The except clause
\* stores str(e).
OnExit(J, t, outcome) ==
    CASE outcome = "ok" -> TryUpdateJob(J, t.job, SuccessUpdate(t.kind))
      [] outcome = "nonzero" ->
            TryUpdateJob(J, t.job,
                FailureUpdate(Str(StageError(t.kind, StderrText))))
      [] outcome = "no_output" ->
            TryUpdateJob(J, t.job,
                FailureUpdate(Str(StageError(t.kind, NoOutputText))))
      [] OTHER -> TryUpdateJob(J, t.job, FailureUpdate(LaunchErrorText))

TaskExit(t, outcome) ==
    /\ BagIn(t, running)
    /\ jobs' = OnExit(jobs, t, outcome)
    /\ running' = running (-) SetToBag({t})
    /\ resp' = NoResp
    /\ UNCHANGED <<sessions, nextJob, queue, dispatched, admitted>>
    /\ UNCHANGED storeVars

\* mutant of OnTimeout: the time limit ends the task without a job write
OnTimeoutSilent(J, t) == J

\* celery_app.py:26-27: the process has not exited when the soft time limit
\* is reached; SoftTimeLimitExceeded is raised in the task, and its except
\* clause turns it into status failed
OnTimeout(J, t) == TryUpdateJob(J, t.job, FailureUpdate("SoftTimeLimitExceeded"))

TaskTimeout(t) ==
    /\ BagIn(t, running)
    /\ jobs' = OnTimeout(jobs, t)
    /\ running' = running (-) SetToBag({t})
    /\ resp' = NoResp
    /\ UNCHANGED <<sessions, nextJob, queue, dispatched, admitted>>
    /\ UNCHANGED storeVars

TaskFinish(t) == (\E o \in ExitOutcomes : TaskExit(t, o)) \/ TaskTimeout(t)

\* ---------------------------------------------------------- specification
Next ==
    \/ \E s \in SessionIds : Upload(s)
    \/ \E kind \in TaskKinds, j \in JobIds : TriggerRead(kind, j)
    \/ \E r \in Tasks : TriggerWrite(r)
    \/ \E j \in JobIds : DeleteJob(j)
    \/ \E onDisk \in BOOLEAN : TaskStart(onDisk)
    \/ \E t \in Runs, line \in StdoutLines : TaskProgress(t, line)
    \/ \E t \in Runs, o \in ExitOutcomes : TaskExit(t, o)
    \/ \E t \in Runs : TaskTimeout(t)

Spec == Init /\ [][Next]_vars

TypeOK ==
    /\ sessions \subseteq SessionIds
    /\ DOMAIN jobs \subseteq 1..nextJob
    /\ nextJob \in 0..Max(MaxJobs, MaxRateJobs)
    /\ \A j \in DOMAIN jobs :
          /\ jobs[j].session \in sessions
          /\ jobs[j].status \in JobStatus
          /\ jobs[j].stage \in JobStage \cup {NoStage}
    /\ Len(queue) <= dispatched
    /\ dispatched \in 0..Max(MaxTasks, MaxRateJobs)
    /\ BagCardinality(running) <= NumWorkers
    /\ BagCardinality(admitted) <= NumHandlers
    /\ now \in Nat
    /\ DOMAIN last_accessed = sessions
    /\ \A s \in sessions : last_accessed[s] \in 0..now
    /\ files \subseteq SessionIds
    /\ \A k \in SessionIds : \A i \in 1..Len(upload_history[k]) :
          upload_history[k][i] \in 0..now
    /\ sweep.running \in BOOLEAN
    /\ reclaim.pc \in {"idle", "check", "batch"}
    /\ uploading \subseteq SessionIds
    /\ expired \subseteq sessions
    /\ BagCardinality(checking) <= NumHandlers

\* JobService.update_job called directly with a progress value (the way the
\* service's unit tests call it): update_job(job_id, progress=p)
ProgressInputs == {-100, -1, 5, 11, 1500}

UpdateJobCall(j, p) ==
    /\ j \in DOMAIN jobs
    /\ jobs' = UpdateJob(jobs, j, [progress |-> p])
    /\ resp' = Response("update_job", j, "ok", p)
    /\ UNCHANGED <<sessions, nextJob, queue, dispatched, running, admitted>>
    /\ UNCHANGED storeVars

NextUpdate ==
    \/ \E s \in SessionIds : Upload(s)
    \/ \E j \in JobIds : DeleteJob(j)
    \/ \E j \in JobIds, p \in ProgressInputs : UpdateJobCall(j, p)
    \/ \E onDisk \in BOOLEAN : TaskStart(onDisk)
    \/ \E t \in Runs, line \in StdoutLines : TaskProgress(t, line)
    \/ \E t \in Runs, o \in ExitOutcomes : TaskExit(t, o)
    \/ \E t \in Runs : TaskTimeout(t)

SpecUpdate == Init /\ [][NextUpdate]_vars

\* The worker pool runs every dispatched task, and a started task ends: the
\* process exits or the time limit is reached.
Fairness ==
    /\ WF_vars(\E onDisk \in BOOLEAN : TaskStart(onDisk))
    /\ \A t \in Runs : WF_vars(TaskFinish(t))

FairSpec == Spec /\ Fairness

\* ------------------------------------------------------------------ clock
\* time passes: the clock moves to a later one of the instants T
Tick(T) ==
    /\ \E t \in T : t > now /\ now' = t
    /\ UNCHANGED <<sessions, jobs, nextJob, queue, dispatched, running,
                   admitted, resp, last_accessed, files, upload_history,
                   sweep, reclaim, uploading, expired, checking>>

\* ----------------------------------------------------------- rate limiter
\* rate_limiter.py:42  timedelta(hours=1), in minutes
RateWindow == 60

\* rate_limiter.py:90  RateLimiter(max_uploads_per_hour=10)
MaxUploads == 10

\* the instants at which the rate limiter is exercised: entries recorded at
\* 0, 1 and 2 are 61, 60 and 59 minutes old at 61
RateTimes == {0, 1, 2, 61}

\* mutant of Recent: no entry is ever dropped
RecentAll(h, t) == h

\* rate_limiter.py:42-52  the entries of h newer than one hour before t
Recent(h, t) == SelectSeq(h, LAMBDA ts : ts > t - RateWindow)

\* mutant of RateAllowed: one limit for the entries of all sessions
RateAllowedGlobal(H, k, t) ==
    Len(Recent(H[1], t)) + Len(Recent(H[2], t)) < MaxUploads

\* rate_limiter.py:55  the limit is not reached
RateAllowed(H, k, t) == Len(Recent(H[k], t)) < MaxUploads

\* mutant of RateRecord: a rejected attempt is recorded too
RateRecordEvery(H, k, t) == [H EXCEPT ![k] = Append(Recent(@, t), t)]

\* rate_limiter.py:45-70  upload_history after check_upload_rate(k) at t: the
\* filtered list is stored, and t is appended when the attempt is allowed
RateRecord(H, k, t) ==
    [H EXCEPT ![k] = IF RateAllowed(H, k, t) THEN Append(Recent(@, t), t)
                     ELSE Recent(@, t)]

\* RateLimiter.check_upload_rate(k) called on the limiter
CheckUploadRate(k) ==
    /\ upload_history' = RateRecord(upload_history, k, now)
    /\ resp' = Response("check_upload_rate", k,
                        IF RateAllowed(upload_history, k, now) THEN "ok"
                        ELSE "RATE_LIMIT_EXCEEDED", 0)
    /\ UNCHANGED <<sessions, jobs, nextJob, queue, dispatched, running,
                   admitted, now, uploading, expired, checking, last_accessed, files, sweep, reclaim>>

NextRate ==
    \/ Tick(RateTimes)
    \/ \E k \in SessionIds : CheckUploadRate(k)

SpecRate == Init /\ [][NextRate]_vars

\* ------------------------------------------------- rate-limited upload
\* the request carries no session_id cookie
NoCookie == 0

\* what the session_id cookie of an upload request holds: nothing, or the
\* id of the first session (which is or is not the session of the upload)
CookieValues == {NoCookie, 1}

\* the instants at which uploads are made
UploadTimes == {0, 61}

\* POST /api/upload through rate_limit_middleware (rate_limiter.py:93-112)
\* and upload_file: the limiter is consulted for the session id of the
\* cookie, when there is one; upload_file takes the session id from the
\* form field, or generates one (s).
UploadRequest(cookie, s) ==
    /\ nextJob < MaxRateJobs
    /\ IF cookie # NoCookie /\ ~RateAllowed(upload_history, cookie, now)
       THEN /\ upload_history' = RateRecord(upload_history, cookie, now)
            /\ resp' = Response("upload", 0, "RATE_LIMIT_EXCEEDED", 0)
            /\ UNCHANGED <<sessions, jobs, nextJob, queue, dispatched,
                           running, admitted, now, uploading, expired, checking, last_accessed, files,
                           sweep, reclaim>>
       ELSE /\ upload_history' =
                  IF cookie # NoCookie
                  THEN RateRecord(upload_history, cookie, now)
                  ELSE upload_history
            /\ UploadFile(s)
            /\ resp' = Response("upload", nextJob + 1, "uploaded", 0)

NextUploadRate ==
    \/ Tick(UploadTimes)
    \/ \E cookie \in CookieValues, s \in SessionIds : UploadRequest(cookie, s)

SpecUploadRate == Init /\ [][NextUploadRate]_vars

\* ------------------------------------------------------- session cleanup
\* cleanup_service.py:23
SESSION_EXPIRY_HOURS == 24

\* timedelta(hours=h) in minutes
MinutesPerHour == 60

\* cleanup_service.py:277  get_oldest_sessions(limit=5)
BatchLimit == 5

\* the instants at which sessions are touched and cleanups run: 1440 is 24
\* hours and 1500 is 25 hours after 0; 1500 is 24 hours after 60 and 23
\* hours after 120
EvictTimes == {0, 60, 120, 1440, 1500}

\* mutant of Expired: a session idle for exactly 24 hours is expired too
ExpiredInclusive(la, t) == la <= t - SESSION_EXPIRY_HOURS * MinutesPerHour

\* cleanup_service.py:35-37  last_accessed < utcnow() - timedelta(hours=24)
Expired(la, t) == la < t - SESSION_EXPIRY_HOURS * MinutesPerHour

\* cleanup_service.py:33-39  get_expired_sessions, as a set of session ids
ExpiredSessions == {s \in sessions : Expired(last_accessed[s], now)}

\* the orders in which a query can return the rows S
Orders(S) ==
    {q \in [1..Cardinality(S) -> S] :
        \A i \in 1..Cardinality(S) : \A j \in 1..Cardinality(S) :
            i # j => q[i] # q[j]}

\* ORDER BY last_accessed ASC: rows with equal times come in any order
OldestFirst(q) ==
    \A i \in 1..(Len(q) - 1) : last_accessed[q[i]] <= last_accessed[q[i + 1]]

\* LIMIT n
Take(q, n) == SubSeq(q, 1, Min(n, Len(q)))

\* cleanup_service.py:55-60  the results get_oldest_sessions(limit) can give
OldestSessions(limit) ==
    {Take(q, limit) : q \in {o \in Orders(sessions) : OldestFirst(o)}}

\* mutant of CascadeDelete: the jobs of the session are left in the store
CascadeDeleteNone(J, s) == J

\* models.py:26  cascade="all, delete-orphan": db.delete(session) deletes the
\* session's job rows
CascadeDelete(J, s) == [j \in {k \in DOMAIN J : J[k].session # s} |-> J[j]]

\* how the database part of a cleanup ends: the row is deleted, or the
\* delete raises and is rolled back (cleanup_service.py:182-186)
DbOutcomes == {"ok", "error"}

\* cleanup_service.py:190-212 cleanup_session: the session's directories are
\* deleted, then its row (with its jobs) is deleted from the database; a
\* session without a row is "Session not found"
CleanupSession(s, db) ==
    /\ files' = files \ {s}
    /\ IF s \in sessions /\ db = "ok"
       THEN /\ sessions' = sessions \ {s}
            /\ last_accessed' = [k \in sessions \ {s} |-> last_accessed[k]]
            /\ expired' = expired \ {s}
            /\ jobs' = CascadeDelete(jobs, s)
       ELSE UNCHANGED <<sessions, last_accessed, expired, jobs>>
    /\ resp' = NoResp
    /\ UNCHANGED <<nextJob, queue, dispatched, running, admitted, now,
                   uploading, checking, upload_history>>

\* tasks/cleanup.py:68-92 cleanup_single_session, dispatched by
\* DELETE /sessions/{session_id}
CleanupSingleSession(s, db) ==
    /\ CleanupSession(s, db)
    /\ UNCHANGED <<sweep, reclaim>>

\* cleanup_service.py:222 cleanup_expired_sessions selects the expired
\* sessions (q: the order in which the query returns them)
SweepStart(q) ==
    /\ ~sweep.running
    /\ sweep' = [running |-> TRUE, batch |-> q,
                 results |-> SweepResults(Len(q))]
    /\ resp' = NoResp
    /\ UNCHANGED <<sessions, jobs, nextJob, queue, dispatched, running,
                   admitted, now, uploading, expired, checking, last_accessed, files, upload_history,
                   reclaim>>

\* cleanup_service.py:202-212  cleanup_session succeeds when the row was
\* deleted
CleanupSucceeds(s, db) == s \in sessions /\ db = "ok"

\* mutant of Tally: a failure is counted without an error entry
TallyNoEntry(res, s, success) ==
    IF success THEN [res EXCEPT !.cleaned = @ + 1]
    ELSE [res EXCEPT !.failed = @ + 1]

\* cleanup_service.py:233-240  the results after the cleanup of session s
Tally(res, s, success) ==
    IF success THEN [res EXCEPT !.cleaned = @ + 1]
    ELSE [res EXCEPT !.failed = @ + 1, !.errors = Append(@, s)]

\* cleanup_service.py:231-240  one iteration of the sweep's loop
SweepCleanup(db) ==
    /\ sweep.running
    /\ sweep.batch # <<>>
    /\ CleanupSession(Head(sweep.batch), db)
    /\ sweep' = [sweep EXCEPT
                    !.batch = Tail(@),
                    !.results = Tally(@, Head(sweep.batch),
                                      CleanupSucceeds(Head(sweep.batch), db))]
    /\ UNCHANGED reclaim

\* cleanup_service.py:242-243  the sweep returns its results
SweepEnd ==
    /\ sweep.running
    /\ sweep.batch = <<>>
    /\ sweep' = NoSweep
    /\ resp' = Response("cleanup_expired_sessions", 0, "ok", sweep.results)
    /\ UNCHANGED <<sessions, jobs, nextJob, queue, dispatched, running,
                   admitted, now, uploading, expired, checking, last_accessed, files, upload_history,
                   reclaim>>

\* The disk: free space depends on the number of session directories.  A
\* goal g stands for a target that is met when at most g session directories
\* remain; -1 is a target that deleting session files cannot meet (the disk
\* is filled by something else).
Goals == {-1, 0, 1}

\* cleanup_service.py:272-273  free_gb >= target_free_gb
FreeSpaceReached(goal) == Cardinality(files) <= goal

\* tasks/cleanup.py:42-45 check_disk_space finds free space below the
\* threshold and calls emergency_cleanup
ReclaimStart(goal) ==
    /\ reclaim.pc = "idle"
    /\ ~FreeSpaceReached(goal)
    /\ reclaim' = [pc |-> "check", batch |-> <<>>, goal |-> goal]
    /\ resp' = NoResp
    /\ UNCHANGED <<sessions, jobs, nextJob, queue, dispatched, running,
                   admitted, now, uploading, expired, checking, last_accessed, files, upload_history,
                   sweep>>

\* cleanup_service.py:271-280  the head of the while loop: the call ends when
\* the target is reached or no session is left; otherwise the next batch is
\* q, a result of get_oldest_sessions(limit=5)
ReclaimCheck(q) ==
    /\ reclaim.pc = "check"
    /\ reclaim' = IF FreeSpaceReached(reclaim.goal) \/ q = <<>>
                  THEN NoReclaim
                  ELSE [reclaim EXCEPT !.pc = "batch", !.batch = q]
    /\ resp' = NoResp
    /\ UNCHANGED <<sessions, jobs, nextJob, queue, dispatched, running,
                   admitted, now, uploading, expired, checking, last_accessed, files, upload_history,
                   sweep>>

\* cleanup_service.py:282-290  one iteration of the for loop over the batch
ReclaimCleanup(db) ==
    /\ reclaim.pc = "batch"
    /\ CleanupSession(Head(reclaim.batch), db)
    /\ reclaim' = IF Tail(reclaim.batch) = <<>>
                  THEN [reclaim EXCEPT !.pc = "check", !.batch = <<>>]
                  ELSE [reclaim EXCEPT !.batch = Tail(@)]
    /\ UNCHANGED sweep

NextEvict ==
    \/ \E s \in SessionIds : Upload(s)
    \/ Tick(EvictTimes)
    \/ \E s \in SessionIds, db \in DbOutcomes : CleanupSingleSession(s, db)
    \/ \E q \in Orders(ExpiredSessions) : SweepStart(q)
    \/ \E db \in DbOutcomes : SweepCleanup(db)
    \/ SweepEnd
    \/ \E goal \in Goals : ReclaimStart(goal)
    \/ \E q \in OldestSessions(BatchLimit) : ReclaimCheck(q)
    \/ \E db \in DbOutcomes : ReclaimCleanup(db)

SpecEvict == Init /\ [][NextEvict]_vars

\* A running emergency_cleanup call keeps executing.
FairnessEvict ==
    /\ WF_vars(\E q \in OldestSessions(BatchLimit) : ReclaimCheck(q))
    /\ WF_vars(\E db \in DbOutcomes : ReclaimCleanup(db))

FairSpecEvict == SpecEvict /\ FairnessEvict

\* --------------------------------------------------- upload security gate
\* A file name is a sequence of pieces: a run of ordinary characters, a
\* suffix (a dot and an extension), "..", "/" or the NUL character.
Nul == "NUL"

\* the file names uploads are made with
FileNames ==
    {<<"model", ".obj">>, <<"model", ".OBJ">>, <<"texture", ".png">>,
     <<"..", "/", "passwd", ".obj">>, <<"a", "..", "b", ".obj">>,
     <<"model", ".obj", Nul, ".exe">>, <<"model", Nul, ".obj">>}

\* the pieces that are a dot followed by an extension
SuffixPieces == {".obj", ".OBJ", ".png", ".exe"}

\* str.lower() on a suffix
Lower(x) == IF x = ".OBJ" THEN ".obj" ELSE x

Pieces(fn) == {fn[i] : i \in 1..Len(fn)}

\* os.path.basename: what follows the last "/"
Basename(fn) ==
    LET slashes == {i \in 1..Len(fn) : fn[i] = "/"}
        last == IF slashes = {} THEN 0
                ELSE CHOOSE i \in slashes : \A k \in slashes : k <= i
    IN SubSeq(fn, last + 1, Len(fn))

\* validation.py:26  Path(filename).suffix.lower(): the part of the final
\* path component from its last dot on ("" when there is none)
GetFileExtension(fn) ==
    LET name == Basename(fn)
    IN IF Len(name) > 1 /\ name[Len(name)] \in SuffixPieces
       THEN Lower(name[Len(name)])
       ELSE ""

\* file_service.py:21
ALLOWED_EXTENSIONS == {".obj", ".fbx", ".glb", ".vrm"}

\* validation.py:47-48, called by FileService.validate_file
IsValidFileExtension(fn) == GetFileExtension(fn) \in ALLOWED_EXTENSIONS

\* file_service.py:29  100 MB, in MB
MAX_FILE_SIZE == 100

\* the sizes of the uploaded content, in MB
FileSizes == {100, 101}

\* file_service.py:116  f.read(4096)
HeaderLen == 4096

\* file_service.py:119-125  the signatures searched for
Signatures == {"ELF", "MZ", "#!", "<?php", "<script"}

\* the length of a signature in bytes (ELF is preceded by the byte 7f)
SigLen(g) ==
    CASE g = "ELF" -> 4
      [] g = "MZ" -> 2
      [] g = "#!" -> 2
      [] g = "<?php" -> 5
      [] OTHER -> 7

\* content without any signature
NoContent == [sig |-> "none", at |-> 0]

\* the uploaded content: which signature it carries, and at which offset
Contents ==
    {NoContent} \cup {[sig |-> g, at |-> 0] : g \in Signatures}
    \cup {[sig |-> "MZ", at |-> 4094], [sig |-> "MZ", at |-> 4095]}

\* file_service.py:127-129  sig in header: the signature lies in the bytes
\* that were read
InHeader(c) == c.sig \in Signatures /\ c.at + SigLen(c.sig) <= HeaderLen

\* what libmagic reports for the written file ("error": it raises)
MimeTypes ==
    {"application/octet-stream", "application/x-executable", "text/plain",
     "error"}

\* file_service.py:22-28
ALLOWED_MIME_TYPES ==
    {"model/obj", "model/gltf-binary", "application/octet-stream",
     "model/vrm", "model/gltf+json"}

\* file_service.py:79  'executable' in mime or 'script' in mime
NamesExecutable(m) == m \in {"application/x-executable", "text/x-shellscript"}

\* file_service.py:84  mime.startswith('application/')
StartsWithApplication(m) ==
    m \in {"application/octet-stream", "application/x-executable"}

\* file_service.py:61-92 validate_mime_type: every failure, an exception of
\* libmagic included, is raised as SecurityError
ValidateMimeType(m) ==
    IF m = "error" THEN "SecurityError"
    ELSE IF NamesExecutable(m) THEN "SecurityError"
    ELSE IF m \notin ALLOWED_MIME_TYPES /\ ~StartsWithApplication(m)
    THEN "SecurityError"
    ELSE "ok"

\* file_service.py:94-136 scan_for_malicious_content
ScanForMaliciousContent(c) == IF InHeader(c) THEN "SecurityError" ELSE "ok"

\* the operating-system call of save_upload that fails, if any: the write
\* of a chunk (the disk is full) or chmod
IoFaults == {"none", "write", "chmod"}

\* an upload of a small, harmless model file that meets no fault
PlainUpload ==
    [filename |-> <<"model", ".obj">>, size |-> 100, content |-> NoContent,
     mime |-> "application/octet-stream", io |-> "none"]

\* in how many respects the upload f differs from the plain one
Differences(f) ==
    Cardinality({a \in DOMAIN PlainUpload : f[a] # PlainUpload[a]})

\* the uploads that are made: they differ from the plain one in at most two
\* respects
UploadInputs ==
    {f \in [filename : FileNames, size : FileSizes, content : Contents,
            mime : MimeTypes, io : IoFaults] : Differences(f) <= 2}

\* result of save_upload: the exception it raises ("None": it returns), and
\* whether the upload's file was created and whether it is still on disk
Saved(raised, written, on_disk) ==
    [raised |-> raised, written |-> written, on_disk |-> on_disk]

\* file_service.py:158-198 save_upload.  open() raises ValueError on a path
\* with an embedded NUL; an OSError of write or chmod is not handled
SaveUpload(f) ==
    IF ~IsValidFileExtension(f.filename)
    THEN Saved("InvalidFormatError", FALSE, FALSE)
    ELSE IF Nul \in Pieces(Basename(f.filename))
    THEN Saved("ValueError", FALSE, FALSE)
    ELSE IF f.io = "write"
    THEN Saved("OSError", TRUE, TRUE)
    ELSE IF f.size > MAX_FILE_SIZE
    THEN Saved("FileSizeExceededError", TRUE, FALSE)
    ELSE IF f.io = "chmod"
    THEN Saved("OSError", TRUE, TRUE)
    ELSE IF ValidateMimeType(f.mime) # "ok"
    THEN Saved("SecurityError", TRUE, FALSE)
    ELSE IF ScanForMaliciousContent(f.content) # "ok"
    THEN Saved("SecurityError", TRUE, FALSE)
    ELSE Saved("None", TRUE, TRUE)

\* upload.py:98-112  the error code of the response: FileSizeExceededError
\* is a FileValidationError and is caught by the first clause
ErrorCode(raised) ==
    IF raised \in {"InvalidFormatError", "FileSizeExceededError"}
    THEN "FILE_VALIDATION_ERROR"
    ELSE "UPLOAD_FAILED"

\* mutant of ReachesCreateJob: the job is created once the file was written
ReachesCreateJobWritten(saved) == saved.written

\* upload.py:81-94  create_job and the dispatch follow save_upload in the
\* try block: they run when save_upload returned
ReachesCreateJob(saved) == saved.raised = "None"

\* upload.py:62-112 upload_file with the file f for the session s: the
\* extension is validated, the session row is created or touched,
\* save_upload runs (its first step makes the session's upload directory),
\* and for a saved file the job is created and its skeleton task dispatched
UploadAttempt(f, s) ==
    /\ s \in sessions \/ s = Cardinality(sessions) + 1
    /\ UNCHANGED upload_history
    /\ IF ReachesCreateJob(SaveUpload(f))
       THEN /\ nextJob < MaxJobs
            /\ CanDispatch
            /\ UploadFile(s)
            /\ resp' = Response("upload_file", nextJob + 1,
                                IF SaveUpload(f).raised = "None"
                                THEN "uploaded"
                                ELSE ErrorCode(SaveUpload(f).raised),
                                [file |-> f, saved |-> SaveUpload(f)])
       ELSE /\ resp' = Response("upload_file", 0, ErrorCode(SaveUpload(f).raised),
                                [file |-> f, saved |-> SaveUpload(f)])
            /\ UNCHANGED <<jobs, nextJob, queue, dispatched, running,
                           admitted, now, uploading, expired, checking, sweep, reclaim>>
            /\ IF ~IsValidFileExtension(f.filename)
               THEN UNCHANGED <<sessions, last_accessed, files>>
               ELSE /\ sessions' = sessions \cup {s}
                    /\ last_accessed' = [k \in sessions \cup {s} |->
                                  IF k = s THEN now ELSE last_accessed[k]]
                    /\ files' = files \cup {s}

NextGate == \E f \in UploadInputs, s \in SessionIds : UploadAttempt(f, s)

SpecGate == Init /\ [][NextGate]_vars

\* -------------------------------------------------------- CSRF middleware
\* csrf.py:22
SafeMethods == {"GET", "HEAD", "OPTIONS"}

Methods == {"GET", "HEAD", "OPTIONS", "POST", "PUT", "DELETE"}

\* what the csrf_token cookie or the X-CSRF-Token header of a request
\* holds: nothing ("None"), the empty string, or a token
TokenValues == {"None", "", "a", "b"}

\* Python's "not x" on an optional string
Falsy(x) == x \in {"None", ""}

\* mutant of CsrfCheck: the header is not compared with the cookie
CsrfCheckNoCompare(method, cookie, header) ==
    IF method \in SafeMethods THEN "pass"
    ELSE IF Falsy(cookie) \/ Falsy(header) THEN "CSRF_TOKEN_MISSING"
    ELSE "pass"

\* csrf.py:24-76 CSRFMiddleware.dispatch: "pass" when call_next is reached,
\* else the code of the HTTPException that is raised
CsrfCheck(method, cookie, header) ==
    IF method \in SafeMethods THEN "pass"
    ELSE IF Falsy(cookie) \/ Falsy(header) THEN "CSRF_TOKEN_MISSING"
    ELSE IF cookie # header THEN "CSRF_TOKEN_INVALID"
    ELSE "pass"

\* the request as the response records it
Req(method, cookie, header) ==
    [method |-> method, cookie |-> cookie, header |-> header]

\* A request through the CSRF middleware (main.py:28) to the handler of its
\* method: POST is an upload for session s, DELETE deletes job j, GET reads
\* job j; the router answers the other methods with 405.  The request
\* carries no session_id cookie.
CsrfRequest(method, cookie, header, j, s) ==
    /\ UNCHANGED <<running, admitted, now, uploading, expired, checking, upload_history, sweep, reclaim>>
    /\ IF CsrfCheck(method, cookie, header) # "pass"
       THEN /\ resp' = Response("request", j,
                                CsrfCheck(method, cookie, header),
                                Req(method, cookie, header))
            /\ UNCHANGED <<sessions, jobs, nextJob, queue, dispatched,
                           last_accessed, files>>
       ELSE IF method = "POST"
       THEN /\ nextJob < MaxJobs
            /\ CanDispatch
            /\ UploadFile(s)
            /\ resp' = Response("request", nextJob + 1, "uploaded",
                                Req(method, cookie, header))
       ELSE IF method = "DELETE"
       THEN /\ jobs' = IF j \in DOMAIN jobs THEN RemoveJob(jobs, j) ELSE jobs
            /\ resp' = Response("request", j,
                                IF j \in DOMAIN jobs THEN "deleted"
                                ELSE "JOB_NOT_FOUND",
                                Req(method, cookie, header))
            /\ UNCHANGED <<sessions, nextJob, queue, dispatched,
                           last_accessed, files>>
       ELSE /\ resp' = Response("request", j,
                                IF method # "GET" THEN "METHOD_NOT_ALLOWED"
                                ELSE IF j \in DOMAIN jobs THEN "ok"
                                ELSE "JOB_NOT_FOUND",
                                Req(method, cookie, header))
            /\ UNCHANGED <<sessions, jobs, nextJob, queue, dispatched,
                           last_accessed, files>>

NextCsrf ==
    \E method \in Methods, cookie \in TokenValues, header \in TokenValues,
       j \in JobIds, s \in SessionIds : CsrfRequest(method, cookie, header, j, s)

SpecCsrf == Init /\ [][NextCsrf]_vars

\* ------------------------------------------------------------ disk check
\* disk_monitor.py:16
EMERGENCY_THRESHOLD_GB == 5

\* disk_monitor.py:17
WARNING_THRESHOLD_GB == 10

\* the free space the periodic check finds, in GB
FreeGbValues == {0, 4, 5, 6, 9, 10, 11}

\* mutant of IsLowDiskSpace: exactly 5 GB free is low too
IsLowDiskSpaceInclusive(free) == free <= EMERGENCY_THRESHOLD_GB

\* disk_monitor.py:44-48
IsLowDiskSpace(free) == free < EMERGENCY_THRESHOLD_GB

\* disk_monitor.py:50-54
NeedsWarning(free) == free < WARNING_THRESHOLD_GB

\* tasks/cleanup.py:52-62  the status reported when space is not low
DiskStatus(free) == IF NeedsWarning(free) THEN "warning" ELSE "ok"

\* tasks/cleanup.py:30-65 check_disk_space with free GB of free space: below
\* the emergency threshold emergency_cleanup is called (its target, 10 GB,
\* is not met then: goal), else a status is returned
CheckDiskSpace(free, goal) ==
    /\ UNCHANGED <<sessions, jobs, nextJob, queue, dispatched, running,
                   admitted, now, uploading, expired, checking, last_accessed, files, upload_history,
                   sweep>>
    /\ IF IsLowDiskSpace(free)
       THEN /\ reclaim.pc = "idle"
            /\ ~FreeSpaceReached(goal)
            /\ reclaim' = [pc |-> "check", batch |-> <<>>, goal |-> goal]
            /\ resp' = Response("check_disk_space", 0, "emergency_cleanup",
                                free)
       ELSE /\ resp' = Response("check_disk_space", 0, DiskStatus(free), free)
            /\ UNCHANGED reclaim

\* a reading of the disk: whether shutil.disk_usage returns or raises, and
\* the free space in GB that it returns
Measurements == [ok : BOOLEAN, free : FreeGbValues]

\* mutant of GetDiskUsage: a failed reading counts as plenty of free space
GetDiskUsageFailHigh(m) == IF m.ok THEN m.free ELSE WARNING_THRESHOLD_GB + 1

\* disk_monitor.py:19-42 get_disk_usage()["free_gb"]: 0 when the reading
\* raises
GetDiskUsage(m) == IF m.ok THEN m.free ELSE 0

\* check_disk_space on a disk whose readings are m: when they fail, every
\* reading of emergency_cleanup's loop is 0 as well, and no deletion meets
\* its target
CheckDiskSpaceOf(m, goal) ==
    /\ ~m.ok => goal = -1
    /\ CheckDiskSpace(GetDiskUsage(m), goal)

NextDisk ==
    \/ \E s \in SessionIds : Upload(s)
    \/ \E m \in Measurements, goal \in Goals : CheckDiskSpaceOf(m, goal)
    \/ \E q \in OldestSessions(BatchLimit) : ReclaimCheck(q)
    \/ \E db \in DbOutcomes : ReclaimCleanup(db)

SpecDisk == Init /\ [][NextDisk]_vars

\* ------------------------------------------- uploads during cleanups
\* upload_file is not one transaction: the session row is created or
\* touched and committed (upload.py:66-78), the file is read and written
\* with awaits (81), and only then the job row is inserted (84-90).

\* whether SQLite enforces the foreign key of jobs.session_id: the
\* application never issues PRAGMA foreign_keys (database.py:17-21), so it
\* is the default of the SQLite build, which is off unless compiled otherwise
ForeignKeys == {"off", "on"}

\* upload.py:66-78  the session row is created, or touched when it exists
UploadBegin(s) ==
    /\ s \notin uploading
    /\ nextJob + Cardinality(uploading) < MaxJobs
    /\ dispatched + Cardinality(uploading) < MaxTasks
    /\ s \in sessions \/ s = Cardinality(sessions) + 1
    /\ sessions' = sessions \cup {s}
    /\ last_accessed' = [k \in sessions \cup {s} |->
                            IF k = s THEN now ELSE last_accessed[k]]
    /\ uploading' = uploading \cup {s}
    /\ resp' = NoResp
    /\ UNCHANGED <<jobs, nextJob, queue, dispatched, running, admitted, now,
                   files, upload_history, sweep, reclaim, expired, checking>>

\* upload.py:80-96  the file is saved under uploads/<session>, the job row
\* is inserted and the skeleton task dispatched.  When the session row has
\* been deleted meanwhile, the insert succeeds without foreign-key
\* enforcement and raises IntegrityError with it.
UploadEnd(s, fk) ==
    /\ s \in uploading
    /\ uploading' = uploading \ {s}
    /\ files' = files \cup {s}
    /\ resp' = NoResp
    /\ UNCHANGED <<sessions, last_accessed, running, admitted, now,
                   upload_history, sweep, reclaim, expired, checking>>
    /\ IF s \in sessions \/ fk = "off"
       THEN /\ nextJob' = nextJob + 1
            /\ jobs' = [j \in DOMAIN jobs \cup {nextJob + 1} |->
                           IF j = nextJob + 1 THEN NewJob(s) ELSE jobs[j]]
            /\ queue' = Append(queue, Task("skeleton", nextJob + 1, FALSE))
            /\ dispatched' = dispatched + 1
       ELSE UNCHANGED <<jobs, nextJob, queue, dispatched>>

\* the instants at which uploads and cleanups happen: 1500 is 25 hours
\* after 0
LiveTimes == {0, 1500}

NextLive ==
    \/ \E s \in SessionIds : UploadBegin(s)
    \/ \E s \in SessionIds, fk \in ForeignKeys : UploadEnd(s, fk)
    \/ \E onDisk \in BOOLEAN : TaskStart(onDisk)
    \/ \E t \in Runs : TaskExit(t, "ok")
    \/ Tick(LiveTimes)
    \/ \E s \in SessionIds, db \in DbOutcomes : CleanupSingleSession(s, db)
    \/ \E q \in Orders(ExpiredSessions) : SweepStart(q)
    \/ \E db \in DbOutcomes : SweepCleanup(db)
    \/ SweepEnd
    \/ \E goal \in Goals : ReclaimStart(goal)
    \/ \E q \in OldestSessions(BatchLimit) : ReclaimCheck(q)
    \/ \E db \in DbOutcomes : ReclaimCleanup(db)

SpecLive == Init /\ [][NextLive]_vars

\* ------------------------------------------ requests and session expiry
\* jobs.py:81-86 get_job endpoint: the row is read and returned; the
\* session row is not read or written
GetJob(j) ==
    /\ resp' = Response("get_job", j,
                        IF j \in DOMAIN jobs THEN "ok" ELSE "JOB_NOT_FOUND", 0)
    /\ UNCHANGED <<sessions, jobs, nextJob, queue, dispatched, running,
                   admitted>>
    /\ UNCHANGED storeVars

\* the kinds of result file a download names
DownloadTypes == {"skeleton", "skin", "final"}

\* download.py:57-64  the path of the result file of the given type is set
HasResult(job, type) ==
    IF type = "skeleton" THEN job.skeleton_file
    ELSE IF type = "skin" THEN job.skin_file
    ELSE job.final_file

\* download.py:52-102 download_result: the job row is read and the file of
\* the requested type is returned when its path is set and the file is on
\* disk (onDisk); the session row is not read or written
DownloadResult(j, type, onDisk) ==
    /\ resp' = Response("download", j,
                        IF j \notin DOMAIN jobs THEN "JOB_NOT_FOUND"
                        ELSE IF ~HasResult(jobs[j], type) THEN "NOT_AVAILABLE"
                        ELSE IF ~onDisk THEN "NOT_ON_SERVER"
                        ELSE "ok", type)
    /\ UNCHANGED <<sessions, jobs, nextJob, queue, dispatched, running,
                   admitted>>
    /\ UNCHANGED storeVars

\* the instants at which requests and sweeps happen: 1441 and 1500 are more
\* than 24 hours after 0, 1500 is less than 24 hours after 1441
TouchTimes == {0, 1441, 1500}

NextTouch ==
    \/ \E s \in SessionIds : Upload(s)
    \/ \E kind \in TaskKinds, j \in JobIds : TriggerRead(kind, j)
    \/ \E r \in Tasks : TriggerWrite(r)
    \/ \E j \in JobIds : GetJob(j)
    \/ \E j \in JobIds, type \in DownloadTypes, onDisk \in BOOLEAN :
          DownloadResult(j, type, onDisk)
    \/ Tick(TouchTimes)
    \/ \E q \in Orders(ExpiredSessions) : SweepStart(q)
    \/ \E db \in DbOutcomes : SweepCleanup(db)
    \/ SweepEnd

SpecTouch == Init /\ [][NextTouch]_vars

\* --------------------------------------- rate limiter, step by step
\* check_upload_rate is a plain method of the one RateLimiter object
\* (rate_limiter.py:90) and takes no lock: when handlers run on more than
\* one thread, a call can be suspended between any two of its statements.
\* a call in progress: its key and the time it read at its start
Check(k, t) == [key |-> k, at |-> t]

\* rate_limiter.py:41-68  now is read, the pruned list is stored and the
\* limit is tested; a call that passes the test goes on to the append
RateTest(k) ==
    /\ BagCardinality(checking) < NumHandlers
    /\ upload_history' = [upload_history EXCEPT ![k] = Recent(@, now)]
    /\ IF RateAllowed(upload_history, k, now)
       THEN /\ checking' = checking (+) SetToBag({Check(k, now)})
            /\ resp' = NoResp
       ELSE /\ resp' = Response("check_upload_rate", k,
                                "RATE_LIMIT_EXCEEDED", 0)
            /\ UNCHANGED checking
    /\ UNCHANGED <<sessions, jobs, nextJob, queue, dispatched, running,
                   admitted, now, uploading, expired, last_accessed, files,
                   sweep, reclaim>>

\* rate_limiter.py:70-71  the time read at the start is appended to the list
\* that the key holds now, and True is returned
RateAppend(c) ==
    /\ BagIn(c, checking)
    /\ checking' = checking (-) SetToBag({c})
    /\ upload_history' = [upload_history EXCEPT ![c.key] = Append(@, c.at)]
    /\ resp' = Response("check_upload_rate", c.key, "ok", 0)
    /\ UNCHANGED <<sessions, jobs, nextJob, queue, dispatched, running,
                   admitted, now, uploading, expired, last_accessed, files,
                   sweep, reclaim>>

\* the instants at which concurrent checks are made
StepTimes == {0, 61}

NextRateSteps ==
    \/ Tick(StepTimes)
    \/ \E k \in SessionIds : RateTest(k)
    \/ \E k \in SessionIds, t \in StepTimes : RateAppend(Check(k, t))

SpecRateSteps == Init /\ [][NextRateSteps]_vars

\* ------------------------------------------------------- secure deletion
\* cleanup_service.py:76  platform.system()
Platforms == {"Linux", "Other"}

\* what running shred does: it exits with 0 (the file is overwritten and
\* unlinked), it exits with an error (the file stays), or it cannot be
\* started (subprocess.run raises)
ShredOutcomes == {"exit0", "error_exit", "not_started"}

\* whether os.remove of an existing file succeeds or raises
RemoveOutcomes == {"ok", "error"}

\* os.remove raises for a file that does not exist
Removed(exists, remove) == exists /\ remove = "ok"

\* result of secure_delete_file: the value returned, whether the file
\* exists afterwards, and whether os.remove was called
Deleted(returned, exists, plain) ==
    [returned |-> returned, exists |-> exists, plain |-> plain]

\* cleanup_service.py:75-91 secure_delete_file.  On Linux shred runs with
\* check=False, so its exit status is not looked at and True is returned;
\* os.remove is the fallback only for an exception.  Elsewhere os.remove
\* is called, and called again after it raised.
SecureDeleteFile(exists, platform, shred, remove) ==
    IF platform = "Linux" /\ shred = "exit0"
    THEN Deleted(TRUE, FALSE, FALSE)
    ELSE IF platform = "Linux" /\ shred = "error_exit"
    THEN Deleted(TRUE, exists, FALSE)
    ELSE Deleted(Removed(exists, remove),
                 exists /\ ~Removed(exists, remove), TRUE)

\* CleanupService.secure_delete_file called on the uploaded file of session
\* s (the file exists when the session has uploaded)
SecureDelete(s, platform, shred, remove) ==
    /\ shred = "exit0" => s \in files
    /\ files' = IF SecureDeleteFile(s \in files, platform, shred, remove).exists
                THEN files ELSE files \ {s}
    /\ resp' = Response("secure_delete_file", s,
                  IF SecureDeleteFile(s \in files, platform, shred,
                                      remove).returned
                  THEN "True" ELSE "False",
                  [platform |-> platform, shred |-> shred, remove |-> remove,
                   existed |-> s \in files,
                   plain |-> SecureDeleteFile(s \in files, platform, shred,
                                              remove).plain])
    /\ UNCHANGED <<sessions, jobs, nextJob, queue, dispatched, running,
                   admitted, now, uploading, expired, checking,
                   last_accessed, upload_history, sweep, reclaim>>

NextShred ==
    \/ \E s \in SessionIds : Upload(s)
    \/ \E s \in SessionIds, platform \in Platforms, shred \in ShredOutcomes,
          remove \in RemoveOutcomes : SecureDelete(s, platform, shred, remove)

SpecShred == Init /\ [][NextShred]_vars

\* ------------------------------------------------- the expired flag
\* session_service.py:17
SESSION_TTL_HOURS == 24

\* session_service.py:119-144 expire_session: the flag is set and the row
\* is updated; the UPDATE also sets last_accessed, which is declared with
\* onupdate=func.now() (models.py:22).  A row whose flag is already set is
\* not written; an unknown session is SessionNotFoundError.
ExpireSession(s) ==
    /\ expired' = IF s \in sessions THEN expired \cup {s} ELSE expired
    /\ last_accessed' = IF s \in sessions \ expired
                        THEN [last_accessed EXCEPT ![s] = now]
                        ELSE last_accessed
    /\ resp' = NoResp
    /\ UNCHANGED <<sessions, jobs, nextJob, queue, dispatched, running,
                   admitted, now, uploading, checking, files, upload_history,
                   sweep, reclaim>>

\* session_service.py:203-207  the rows that cleanup_expired_sessions updates
Inactive ==
    {s \in sessions \ expired :
        last_accessed[s] < now - SESSION_TTL_HOURS * MinutesPerHour}

\* session_service.py:193-212 SessionService.cleanup_expired_sessions: the
\* inactive sessions are flagged in one UPDATE (which sets last_accessed as
\* well, models.py:22) and their number is returned
MarkExpired ==
    /\ expired' = expired \cup Inactive
    /\ last_accessed' = [s \in sessions |->
                            IF s \in Inactive THEN now ELSE last_accessed[s]]
    /\ resp' = Response("mark_expired", 0, "ok", Cardinality(Inactive))
    /\ UNCHANGED <<sessions, jobs, nextJob, queue, dispatched, running,
                   admitted, now, uploading, checking, files, upload_history,
                   sweep, reclaim>>

\* session_service.py:174-191 SessionService.get_expired_sessions, as a set
\* of session ids: flagged, or inactive for more than 24 hours
ServiceExpiredSessions ==
    {s \in sessions :
        \/ s \in expired
        \/ last_accessed[s] < now - SESSION_TTL_HOURS * MinutesPerHour}

\* the instants at which sessions are used, flagged and swept
FlagTimes == {0, 1500}

NextFlag ==
    \/ \E s \in SessionIds : Upload(s)
    \/ Tick(FlagTimes)
    \/ \E s \in SessionIds : ExpireSession(s)
    \/ MarkExpired
    \/ \E q \in Orders(ExpiredSessions) : SweepStart(q)
    \/ \E db \in DbOutcomes : SweepCleanup(db)
    \/ SweepEnd

SpecFlag == Init /\ [][NextFlag]_vars

\* ------------------------------------------------------ request pipeline
\* mutant of MiddlewareOrder: the middlewares run in the order of their
\* registration
MiddlewareOrderAsAdded == <<"csrf", "rate_limit">>

\* main.py:26-29  CSRFMiddleware is added before rate_limit_middleware, and
\* a middleware added later wraps the ones added before it: the rate limiter
\* sees the request first
MiddlewareOrder == <<"rate_limit", "csrf">>

\* the request as the response records it
UploadReq(sid, cookie, header) ==
    [sid |-> sid, cookie |-> cookie, header |-> header]

\* the rate limiter refuses the request with the session_id cookie sid
Limited(sid) == sid # NoCookie /\ ~RateAllowed(upload_history, sid, now)

\* rate_limiter.py:93-112 and csrf.py:24-76 in the order of the stack: the
\* answer of the first middleware that refuses the request, else "pass"
PipelineCode(sid, cookie, header) ==
    IF MiddlewareOrder[1] = "rate_limit"
    THEN IF Limited(sid) THEN "RATE_LIMIT_EXCEEDED"
         ELSE CsrfCheck("POST", cookie, header)
    ELSE IF CsrfCheck("POST", cookie, header) # "pass"
         THEN CsrfCheck("POST", cookie, header)
         ELSE IF Limited(sid) THEN "RATE_LIMIT_EXCEEDED" ELSE "pass"

\* the request reaches check_upload_rate: it carries a session_id cookie
\* and no middleware outside the rate limiter has refused it
ReachesLimiter(sid, cookie, header) ==
    /\ sid # NoCookie
    /\ \/ MiddlewareOrder[1] = "rate_limit"
       \/ CsrfCheck("POST", cookie, header) = "pass"

\* POST /api/upload with the session_id cookie sid, the csrf_token cookie
\* and the X-CSRF-Token header, through the middleware stack to upload_file
\* (form field or generated session id: s)
PipelineUpload(sid, cookie, header, s) ==
    /\ upload_history' =
          IF ReachesLimiter(sid, cookie, header)
          THEN RateRecord(upload_history, sid, now)
          ELSE upload_history
    /\ IF PipelineCode(sid, cookie, header) = "pass"
       THEN /\ nextJob < MaxJobs
            /\ CanDispatch
            /\ UploadFile(s)
            /\ resp' = Response("pipeline", nextJob + 1, "uploaded",
                                UploadReq(sid, cookie, header))
       ELSE /\ resp' = Response("pipeline", 0,
                                PipelineCode(sid, cookie, header),
                                UploadReq(sid, cookie, header))
            /\ UNCHANGED <<sessions, jobs, nextJob, queue, dispatched,
                           running, admitted, now, uploading, expired,
                           checking, last_accessed, files, sweep, reclaim>>

NextPipeline ==
    \/ Tick(UploadTimes)
    \/ \E sid \in CookieValues, cookie \in TokenValues,
          header \in TokenValues, s \in SessionIds :
             PipelineUpload(sid, cookie, header, s)

SpecPipeline == Init /\ [][NextPipeline]_vars

\* ================================================================= claims
\* the jobs of session s that are queued or processing
Conflicting(s) ==
    {j \in DOMAIN jobs :
        jobs[j].session = s /\ jobs[j].status \in {"queued", "processing"}}

\* the step evaluates the gate of a stage request of the given kind for job
\* j: it answers the request with an error, or lets it pass to the write
GateStep(kind, j) ==
    \/ /\ admitted' = admitted
       /\ resp'.op = kind
       /\ resp'.job = j
    \/ \E r \in Tasks :
          /\ r.kind = kind
          /\ r.job = j
          /\ admitted' = admitted (+) SetToBag({r})

\* the step is the write of the admitted request r and the job's row exists
WriteStep(r) ==
    /\ BagIn(r, admitted)
    /\ admitted' = admitted (-) SetToBag({r})
    /\ r.job \in DOMAIN jobs

\* C1: for every session, at most one of its jobs is queued or processing.
C1_AtMostOneActive ==
    \A s \in SessionIds : Cardinality(Conflicting(s)) <= 1

\* C2: of two concurrently handled stage requests for different jobs of one
\* session at most one is admitted: a request whose write is reached while
\* another job of its session is queued is answered ConcurrencyLimitExceeded.
C2_ConcurrentTriggersExclusive ==
    [][\A r \in Tasks :
          (/\ WriteStep(r)
           /\ \E k \in DOMAIN jobs \ {r.job} :
                 /\ jobs[k].session = jobs[r.job].session
                 /\ jobs[k].status = "queued")
          => resp'.code = "CONCURRENT_JOB_LIMIT"]_vars

\* C3 as stated: a stage request on an existing job whose session has a
\* queued or processing job fails with ConcurrencyLimitExceeded carrying the
\* count, dispatches nothing and changes no job.
C3_Original ==
    [][\A kind \in TaskKinds, j \in DOMAIN jobs :
          (GateStep(kind, j) /\ Conflicting(jobs[j].session) # {})
          => /\ resp'.code = "CONCURRENT_JOB_LIMIT"
             /\ resp'.detail = Cardinality(Conflicting(jobs[j].session))
             /\ jobs' = jobs
             /\ queue' = queue]_vars

\* C3 amended: the same, for a skeleton request and for a skinning request
\* on a job whose skeleton artifact is set (a skinning request on a job
\* without one fails with the precondition error first).
C3_GateRejects ==
    [][\A kind \in TaskKinds, j \in DOMAIN jobs :
          (/\ GateStep(kind, j)
           /\ Conflicting(jobs[j].session) # {}
           /\ (kind = "skinning" => jobs[j].skeleton_file))
          => /\ resp'.code = "CONCURRENT_JOB_LIMIT"
             /\ resp'.detail = Cardinality(Conflicting(jobs[j].session))
             /\ jobs' = jobs
             /\ queue' = queue]_vars

\* a skinning request was rejected by the gate because of a sibling job
C3_Witness ==
    /\ resp.code = "CONCURRENT_JOB_LIMIT"
    /\ resp.op = "skinning"
    /\ resp.job \in DOMAIN jobs
    /\ jobs[resp.job].status = "completed"
    /\ resp.detail >= 1

\* C4: a skinning request on an existing job without a skeleton artifact
\* fails with the precondition error, whatever the job's status and the
\* session's other jobs, changes no job and dispatches nothing.
C4_SkinningNeedsSkeleton ==
    [][\A j \in DOMAIN jobs :
          (GateStep("skinning", j) /\ ~jobs[j].skeleton_file)
          => /\ resp'.code = "SKELETON_REQUIRED"
             /\ jobs' = jobs
             /\ queue' = queue]_vars

\* the precondition error was returned for a job that is itself active
C4_Witness ==
    /\ resp.code = "SKELETON_REQUIRED"
    /\ resp.job \in DOMAIN jobs
    /\ jobs[resp.job].status = "processing"

AllowedEdges ==
    {<<"uploaded", "queued">>, <<"queued", "processing">>,
     <<"processing", "completed">>, <<"processing", "failed">>,
     <<"completed", "queued">>, <<"failed", "queued">>}

\* C5: every status change of a job follows one of the edges
\* uploaded->queued, queued->processing, processing->completed,
\* processing->failed, completed->queued, failed->queued.
C5_StatusEdges ==
    [][\A j \in DOMAIN jobs :
          (j \in DOMAIN jobs' /\ jobs'[j].status # jobs[j].status)
          => <<jobs[j].status, jobs'[j].status>> \in AllowedEdges]_vars

\* C6: a job whose stage is skinning_generation has its skeleton artifact set.
C6_SkinningHasSkeleton ==
    \A j \in DOMAIN jobs :
        jobs[j].stage = "skinning_generation" => jobs[j].skeleton_file

\* a skinning task is running for a job
C6_Witness ==
    \E j \in DOMAIN jobs :
        jobs[j].stage = "skinning_generation" /\ jobs[j].status = "processing"

C10_CompletedHasResult ==
    \A j \in DOMAIN jobs :
        jobs[j].status = "completed" =>
            /\ jobs[j].progress = 10
            /\ jobs[j].stage = "skeleton_generation" => jobs[j].skeleton_file
            /\ jobs[j].stage = "skinning_generation" => jobs[j].skin_file
            /\ jobs[j].stage = "merge" => jobs[j].final_file

\* the outcomes in which a stage task raises while driving the process
FailureOutcomes == {"launch_error", "nonzero", "no_output"}

\* C11: when a stage task raises while driving the external process (launch
\* error, non-zero exit code, output artifact missing) and the job's row
\* exists, the task leaves the job in status failed with an error message.
C11_FailureRecorded ==
    [][\A t \in Runs, o \in FailureOutcomes :
          (TaskExit(t, o) /\ t.job \in DOMAIN jobs)
          => /\ jobs'[t.job].status = "failed"
             /\ jobs'[t.job].error_message # NoError]_vars

\* the skinning process could not be launched for a job whose skeleton stage
\* had succeeded, and the job is failed with the launch error as message
C11_Witness ==
    \E j \in DOMAIN jobs :
        /\ jobs[j].status = "failed"
        /\ jobs[j].stage = "skinning_generation"
        /\ jobs[j].skeleton_file
        /\ jobs[j].error_message = LaunchErrorText

\* C12: when the external process exits with a non-zero code, the error
\* message stored on the job is the captured stderr text of the process.
C12_StderrStored ==
    [][\A t \in Runs :
          (TaskExit(t, "nonzero") /\ t.job \in DOMAIN jobs)
          => jobs'[t.job].error_message = StderrText]_vars

\* C13: after a stage task has failed, the job stays failed and no task is
\* executed for it until a new stage request is admitted: a failed job
\* leaves failed only to queued, and no task starts for a failed job.
C13_NoExecutionAfterFailure ==
    [][\A j \in DOMAIN jobs :
          jobs[j].status = "failed" =>
             /\ (j \in DOMAIN jobs' /\ jobs'[j].status # "failed")
                   => jobs'[j].status = "queued"
             /\ ~(/\ queue # <<>>
                  /\ Head(queue).job = j
                  /\ queue' = Tail(queue))]_vars

\* the number of entries of h that are less than 60 minutes old at t
CountWithinHour(h, t) == Cardinality({i \in 1..Len(h) : t - h[i] < 60})

\* C14: check_upload_rate admits an attempt exactly when fewer than 10
\* admitted attempts of the session lie within the preceding 60 minutes; an
\* attempt recorded 61 minutes ago is not counted, and with 10 attempts
\* recorded in the last hour the next one is rejected.
C14_RateLimit ==
    [][\A k \in SessionIds :
          CheckUploadRate(k) =>
             /\ (resp'.code = "ok")
                   <=> (CountWithinHour(upload_history[k], now) < 10)
             /\ (resp'.code = "RATE_LIMIT_EXCEEDED")
                   <=> (CountWithinHour(upload_history[k], now) >= 10)
             /\ resp'.code = "ok"
                   => /\ Len(upload_history'[k]) >= 1
                      /\ upload_history'[k][Len(upload_history'[k])] = now
             /\ \A i \in 1..Len(upload_history'[k]) :
                   now - upload_history'[k][i] # 61]_vars

\* an attempt is rejected at minute 61 with 10 attempts recorded in the last
\* hour, the oldest of them 59 minutes ago
C14_Witness ==
    /\ resp.op = "check_upload_rate"
    /\ resp.code = "RATE_LIMIT_EXCEEDED"
    /\ now = 61
    /\ Len(upload_history[resp.job]) = 10
    /\ upload_history[resp.job][1] = 2

\* the jobs created for session s in the 60 minutes that end at instant t
AcceptedInWindow(s, t) ==
    {j \in DOMAIN jobs :
        /\ jobs[j].session = s
        /\ jobs[j].created_at <= t
        /\ t - jobs[j].created_at < 60}

\* C15: for every session, at most 10 uploads are accepted (a job created for
\* the session) within any 60-minute window, whether the session id arrives
\* in the cookie, in the form field or not at all.
C15_UploadsPerSessionBounded ==
    \A s \in SessionIds : \A t \in UploadTimes :
        Cardinality(AcceptedInWindow(s, t)) <= 10

\* the step is emergency reclaim's cleanup of session s, and it removes s
\* from the store
ReclaimEvicts(s) ==
    /\ reclaim.pc = "batch"
    /\ reclaim' # reclaim
    /\ Head(reclaim.batch) = s
    /\ s \in sessions
    /\ s \notin sessions'

\* C16: emergency reclaim evicts oldest first: whenever it evicts a session,
\* no session with an older last-accessed time is still in the store.
C16_OldestFirstEviction ==
    [][\A s \in SessionIds :
          ReclaimEvicts(s)
          => \A t \in sessions : last_accessed[t] >= last_accessed[s]]_vars

\* C17: emergency reclaim always terminates: a running call eventually ends.
C17_ReclaimTerminates ==
    (reclaim.pc # "idle") ~> (reclaim.pc = "idle")

\* the sessions the sweep has just selected
SweepSelected == {sweep'.batch[i] : i \in 1..Len(sweep'.batch)}

\* C18: the expiry sweep selects exactly the sessions last accessed more than
\* 24 hours (1440 minutes) before the sweep: one last accessed 25 hours ago
\* is selected, one last accessed 23 hours ago is not.
C18_SweepSelectsExpired ==
    [][(~sweep.running /\ sweep'.running) =>
          /\ SweepSelected = {s \in sessions : now - last_accessed[s] > 1440}
          /\ \A s \in sessions :
                /\ now - last_accessed[s] = 1500 => s \in SweepSelected
                /\ now - last_accessed[s] = 1380 => s \notin SweepSelected]_vars

\* a sweep has selected the session last accessed 25 hours ago and not the
\* one last accessed 23 hours ago
C18_Witness ==
    /\ sweep.running
    /\ \E s \in sessions : \E t \in sessions :
          /\ now - last_accessed[s] = 1500
          /\ now - last_accessed[t] = 1380
          /\ sweep.batch = <<s>>

\* the step is the sweep's cleanup of session s, and it removes s from the
\* store
SweepDeletes(s) ==
    /\ sweep.running
    /\ sweep.batch # <<>>
    /\ sweep' # sweep
    /\ Head(sweep.batch) = s
    /\ s \in sessions
    /\ s \notin sessions'

\* C19: the expiry sweep deletes only sessions whose last-accessed time is
\* older than 24 hours at the moment they are deleted.
C19_SweepDeletesOnlyExpired ==
    [][\A s \in SessionIds :
          SweepDeletes(s) => now - last_accessed[s] > 1440]_vars

\* C20: deleting a session removes every job row it owns: a query for any
\* of those job ids yields NotFound afterwards.
C20_SessionDeleteCascades ==
    [][\A s \in sessions :
          s \notin sessions'
          => \A j \in DOMAIN jobs :
                jobs[j].session = s => j \notin DOMAIN jobs']_vars

\* the first session was deleted with its job, and the second session and
\* its job are still in the store
C20_Witness ==
    /\ nextJob = 2
    /\ sessions = {2}
    /\ DOMAIN jobs = {2}
    /\ jobs[2].session = 2

\* C21: for every upload that fails at any stage of the security gate
\* (extension, write, size, permission hardening, MIME check, signature
\* scan), the file written for it is not on disk once the upload returns.
C21_FailedUploadLeavesNoFile ==
    (resp.op = "upload_file" /\ resp.code # "uploaded")
    => ~resp.detail.saved.on_disk

\* C22: an upload whose file name contains ".." or a NUL byte is rejected,
\* and no file is written for it.
C22_TraversalNameRejected ==
    (/\ resp.op = "upload_file"
     /\ (".." \in Pieces(resp.detail.file.filename)
         \/ Nul \in Pieces(resp.detail.file.filename)))
    => /\ resp.code # "uploaded"
       /\ ~resp.detail.saved.written

\* C23: an upload whose content carries an executable or script signature in
\* its first 4096 bytes is rejected with a security violation, and neither a
\* file nor a job remains for it.
C23_SignatureRejected ==
    (/\ resp.op = "upload_file"
     /\ resp.detail.file.content.sig \in Signatures
     /\ resp.detail.file.content.at + SigLen(resp.detail.file.content.sig)
           <= 4096)
    => /\ resp.detail.saved.raised = "SecurityError"
       /\ ~resp.detail.saved.on_disk
       /\ resp.job = 0

\* the request answered by the step is state-changing and does not carry a
\* csrf_token cookie and an X-CSRF-Token header with equal values
LacksToken(r) ==
    /\ r.op = "request"
    /\ r.detail.method \notin {"GET", "HEAD", "OPTIONS"}
    /\ \/ r.detail.cookie \in {"None", ""}
       \/ r.detail.header \in {"None", ""}
       \/ r.detail.cookie # r.detail.header

C26_SweepAggregates ==
    /\ sweep.running =>
          /\ sweep.results.cleaned + sweep.results.failed + Len(sweep.batch)
                = sweep.results.total_expired
          /\ Len(sweep.results.errors) = sweep.results.failed
    /\ resp.op = "cleanup_expired_sessions" =>
          /\ resp.detail.cleaned + resp.detail.failed
                = resp.detail.total_expired
          /\ Len(resp.detail.errors) = resp.detail.failed
          /\ \A i \in 1..Len(resp.detail.errors) :
                \A k \in 1..Len(resp.detail.errors) :
                   resp.detail.errors[i] = resp.detail.errors[k] => i = k

\* a sweep of two sessions has ended with one cleaned and one failed; the
\* failed one has its error entry and is still in the store
C26_Witness ==
    /\ resp.op = "cleanup_expired_sessions"
    /\ resp.detail.total_expired = 2
    /\ resp.detail.cleaned = 1
    /\ resp.detail.failed = 1
    /\ Len(resp.detail.errors) = 1
    /\ sessions = {resp.detail.errors[1]}

TasksOf(j) ==
    Cardinality({i \in 1..Len(queue) : queue[i].job = j})
    + CopiesIn(Run("skeleton", j), running)
    + CopiesIn(Run("skinning", j), running)

\* C28: for every job, at most one stage task is dispatched or running at
\* any time, also when a skeleton request is made for the job right after
\* its upload.
C28_OneTaskPerJob == \A j \in JobIds : TasksOf(j) <= 1

\* C29: neither the expiry sweep nor emergency reclaim deletes a session
\* that owns a job in queued or processing status.
C29_NoEvictionOfActiveSession ==
    [][\A s \in sessions :
          (SweepDeletes(s) \/ ReclaimEvicts(s)) => Conflicting(s) = {}]_vars

\* C30: in every reachable state, every job row's session_id names a session
\* row that exists, also when a session is evicted while an upload for it
\* is between session creation and job creation.
C30_JobsHaveSession == \A j \in DOMAIN jobs : jobs[j].session \in sessions

\* the step is a request that acts on the job j: a stage trigger that writes,
\* a job query or a download that finds the job
JobRequestStep(j) ==
    \/ \E r \in Tasks : r.job = j /\ WriteStep(r)
    \/ GetJob(j) /\ resp'.code = "ok"
    \/ \E type \in DownloadTypes, onDisk \in BOOLEAN :
          DownloadResult(j, type, onDisk) /\ resp'.code # "JOB_NOT_FOUND"

\* C31: a request acting on a session or on one of its jobs (upload, stage
\* trigger, job query, download) sets the session's last_accessed to the
\* time of the request, so that the session is not selected as expired
\* within 24 hours of it.
C31_RequestsRefreshSession ==
    [][/\ \A j \in DOMAIN jobs :
             (JobRequestStep(j) /\ jobs[j].session \in sessions)
                => last_accessed'[jobs[j].session] = now
       /\ nextJob' = nextJob + 1
             => last_accessed'[jobs'[nextJob'].session] = now]_vars

\* C32: under every interleaving of concurrent checks of a session, the
\* attempts admitted for it (the timestamps recorded) within the last 60
\* minutes never number more than 10.
C32_ConcurrentChecksBounded ==
    \A k \in SessionIds : CountWithinHour(upload_history[k], now) <= 10

\* the timestamps of h that are less than 60 minutes old at t, in order
Pruned(h, t) == SelectSeq(h, LAMBDA ts : t - ts < 60)

\* C33: a rejected rate-limit check leaves the session's history equal to
\* the pruned history (the rejected attempt is not recorded), an admitted
\* check leaves it equal to the pruned history followed by the one new
\* timestamp, and no check changes another session's history.
C33_CheckFrame ==
    [][\A k \in SessionIds :
          CheckUploadRate(k) =>
             /\ resp'.code = "RATE_LIMIT_EXCEEDED"
                   => upload_history'[k] = Pruned(upload_history[k], now)
             /\ resp'.code = "ok"
                   => upload_history'[k] =
                         Append(Pruned(upload_history[k], now), now)
             /\ \A o \in SessionIds \ {k} :
                   upload_history'[o] = upload_history[o]]_vars

\* an attempt was rejected at minute 2 and left no timestamp of minute 2,
\* while the other session has a history of its own
C33_Witness ==
    /\ resp.op = "check_upload_rate"
    /\ resp.code = "RATE_LIMIT_EXCEEDED"
    /\ now = 2
    /\ Len(upload_history[resp.job]) = 10
    /\ upload_history[resp.job][10] = 1
    /\ \E o \in SessionIds \ {resp.job} : Len(upload_history[o]) > 0

\* C34: an upload that is rejected (at the extension check, the size limit,
\* the MIME check, the signature scan, or by any other error) creates no
\* job row and dispatches no task: the job table, the id counter and the
\* broker queue are as before.
C34_RejectedUploadNoJob ==
    [][(resp'.op = "upload_file" /\ resp'.code # "uploaded") =>
          /\ jobs' = jobs
          /\ nextJob' = nextJob
          /\ queue' = queue
          /\ dispatched' = dispatched]_vars

\* an upload whose content holds an executable signature was rejected after
\* an earlier upload had been accepted: one job, one task
C34_Witness ==
    /\ resp.op = "upload_file"
    /\ resp.code = "UPLOAD_FAILED"
    /\ resp.detail.saved.raised = "SecurityError"
    /\ resp.detail.file.content # NoContent
    /\ nextJob = 1
    /\ DOMAIN jobs = {1}
    /\ Len(queue) = 1

\* the last step's secure_delete_file call met a failure of the
\* overwrite-delete tool: shred could not be started or exited with an error
ShredFailed ==
    /\ resp.detail.platform = "Linux"
    /\ resp.detail.shred \in {"error_exit", "not_started"}

\* C35: after secure_delete_file has returned True the file does not exist;
\* and when the overwrite-delete step failed (tool missing, or tool exited
\* with an error) a plain delete has been attempted.
C35_SecureDeleteSuccess ==
    resp.op = "secure_delete_file" =>
       /\ resp.code = "True" => resp.job \notin files
       /\ ShredFailed => resp.detail.plain

\* C36: every session whose expired flag is set is selected by the routine
\* expiry sweep, and in every state the sweep's selector and
\* SessionService.get_expired_sessions select the same set of sessions.
C36_FlaggedSessionsSwept ==
    /\ expired \subseteq ExpiredSessions
    /\ ExpiredSessions = ServiceExpiredSessions

\* the limiter's state with session k's history as it is and every other
\* session's history replaced by h
WithOthers(k, h) ==
    [o \in SessionIds |-> IF o = k THEN upload_history[k] ELSE h]

\* the histories another session can have at instant t: none, or a full
\* window of attempts made just now
OtherHistories(t) == {<<>>, [i \in 1..10 |-> t]}

\* C37: the outcome of a check of session k, and what it records for k, are
\* the same whatever the histories of the other sessions are; a session
\* with fewer than 10 attempts in the last hour is admitted even when
\* another session has used up its limit.
C37_OtherSessionsIrrelevant ==
    [][\A k \in SessionIds :
          CheckUploadRate(k) =>
             /\ \A h \in OtherHistories(now) :
                   /\ RateAllowed(WithOthers(k, h), k, now)
                         <=> resp'.code = "ok"
                   /\ RateRecord(WithOthers(k, h), k, now)[k]
                         = upload_history'[k]
             /\ CountWithinHour(upload_history[k], now) < 10
                   => resp'.code = "ok"]_vars

\* a check of one session was admitted while the other session had 10
\* attempts recorded in the same minute
C37_Witness ==
    /\ resp.op = "check_upload_rate"
    /\ resp.code = "ok"
    /\ \E o \in SessionIds \ {resp.job} :
          /\ Len(upload_history[o]) = 10
          /\ \A i \in 1..10 : upload_history[o][i] = now

\* the step answers an upload request that carries a session_id cookie
CookieRequestStep ==
    /\ now' = now
    /\ resp'.op = "pipeline"
    /\ resp'.detail.sid # NoCookie

\* C38: the rate limiter runs before the CSRF check: an upload request with
\* a session cookie that is rejected for a missing or mismatched CSRF token
\* has been recorded in the session's rate-limit window, and a request over
\* the limit is answered by the rate limiter whatever its CSRF token.
C38_RateLimitBeforeCsrf ==
    [][CookieRequestStep =>
          /\ resp'.code \in {"CSRF_TOKEN_MISSING", "CSRF_TOKEN_INVALID"}
                => upload_history'[resp'.detail.sid] =
                      Append(Pruned(upload_history[resp'.detail.sid], now),
                             now)
          /\ CountWithinHour(upload_history[resp'.detail.sid], now) >= 10
                => resp'.code = "RATE_LIMIT_EXCEEDED"]_vars

\* ten requests of the cookie's session were rejected for their CSRF token
\* (no upload has ever been accepted) and fill its window
C38_Witness ==
    /\ resp.op = "pipeline"
    /\ resp.code = "CSRF_TOKEN_MISSING"
    /\ resp.detail.sid # NoCookie
    /\ nextJob = 0
    /\ Len(upload_history[resp.detail.sid]) = 10
    /\ upload_history[resp.detail.sid][10] = now

\* the readings of the disk fail
FailedReadings == {m \in Measurements : ~m.ok}

====
